---- MODULE Spec2Model ----
(***************************************************************************)
(* A model of chartr: the actor/event store (chartr-core/src/event.rs),    *)
(* the timeline renderer (analyzr-core/src/render.rs) and the loader that  *)
(* recovers the store from a rendered artifact (chartr-core/src/lib.rs).   *)
(*                                                                         *)
(* A Rust String is a sequence of one-character strings, Option<T> is the  *)
(* empty sequence (None) or a one-element sequence (Some), a BTreeMap is a *)
(* function whose keys are iterated in ascending order, and a BTreeSet is  *)
(* the strictly ascending sequence of its elements.                        *)
(***************************************************************************)
EXTENDS Integers, Sequences, FiniteSets, TLC

\* ------------------------------------------------------------------ bounds

\* The most events a store holds, over all its actors.
MaxEvents == 2

\* ------------------------------------------------------------- basic types

None == << >>
Some(x) == << x >>

\* The actor identities, tooltips, values and colours the calls draw from.
ActorIds == { <<"A">>, <<"B">> }
Tooltips == { None, Some(<<"t">>) }
Times == { -1500000, 500000 }
Durations == { 0, 750000 }

\* std::cmp::Ordering
Less == "Less"
Equal == "Equal"
Greater == "Greater"

\* The byte value of a character (the order str compares by).
CharCode(c) ==
    CASE c = "\"" -> 34
      [] c = "#" -> 35
      [] c = "-" -> 45
      [] c = ">" -> 62
      [] c = "A" -> 65
      [] c = "B" -> 66
      [] c = "\\" -> 92
      [] c = "f" -> 102
      [] c = "h" -> 104
      [] c = "i" -> 105
      [] c = "l" -> 108
      [] c = "t" -> 116
      [] c = "v" -> 118
      [] c = "w" -> 119

\* i64::cmp
IntCmp(a, b) == IF a < b THEN Less ELSE IF a = b THEN Equal ELSE Greater

\* str::cmp: lexicographic by byte, a proper prefix being less.
RECURSIVE StrCmp(_, _)
StrCmp(s, t) ==
    IF s = << >> /\ t = << >> THEN Equal
    ELSE IF s = << >> THEN Less
    ELSE IF t = << >> THEN Greater
    ELSE IF CharCode(Head(s)) # CharCode(Head(t))
         THEN IntCmp(CharCode(Head(s)), CharCode(Head(t)))
         ELSE StrCmp(Tail(s), Tail(t))

\* The keys of a BTreeMap<String, _> in iteration order.
RECURSIVE SortedKeys(_)
SortedKeys(keys) ==
    IF keys = {} THEN << >>
    ELSE LET least == CHOOSE k \in keys : \A o \in keys : StrCmp(k, o) # Greater
         IN  << least >> \o SortedKeys(keys \ { least })

\* ------------------------------------------------------------------ events

Span(start, duration) == << "Span", start, duration >>
Instant(instant) == << "Instant", instant >>

EventKinds ==
    { Span(s, d) : s \in Times, d \in { None } \cup { Some(x) : x \in Durations } }
        \cup { Instant(t) : t \in Times }

Fill == << "f", "i", "l", "l" >>

\* The two contents an event is given: they differ in fields, value and tooltip.
Contents ==
    { [fields |-> << >>, value |-> <<"v">>, tooltip |-> None],
      [fields |-> [k \in { Fill } |-> << "#", "A", "B" >>], value |-> <<"w">>,
       tooltip |-> Some(<<"t">>)] }

Events ==
    { [fields |-> c.fields, kind |-> k, value |-> c.value, tooltip |-> c.tooltip] :
        k \in EventKinds, c \in Contents }

start_time(e) == e.kind[2]

end_time(e) ==
    CASE e.kind[1] = "Span" /\ e.kind[3] # None -> Some(e.kind[2] + e.kind[3][1])
      [] e.kind[1] = "Span" /\ e.kind[3] = None -> None
      [] e.kind[1] = "Instant" -> Some(e.kind[2])

\* A comparison that puts None after every Some.
OptCmpNoneLast(a, b) ==
    IF a = None /\ b = None THEN Equal
    ELSE IF a = None THEN Greater
    ELSE IF b = None THEN Less
    ELSE IntCmp(a[1], b[1])

\* Option<i64>::cmp: None is less than every Some.
OptCmp(a, b) ==
    IF a = None /\ b = None THEN Equal
    ELSE IF a = None THEN Less
    ELSE IF b = None THEN Greater
    ELSE IntCmp(a[1], b[1])

\* Event::cmp: the tuples (start_time, end_time) compared lexicographically.
Cmp(a, b) ==
    IF IntCmp(start_time(a), start_time(b)) # Equal
    THEN IntCmp(start_time(a), start_time(b))
    ELSE OptCmp(end_time(a), end_time(b))

\* An insert that replaces the stored element that compares Equal, as
\* BTreeSet::replace does.
RECURSIVE SetReplace(_, _)
SetReplace(set, e) ==
    IF set = << >> THEN << e >>
    ELSE CASE Cmp(e, Head(set)) = Less -> << e >> \o set
           [] Cmp(e, Head(set)) = Equal -> << e >> \o Tail(set)
           [] Cmp(e, Head(set)) = Greater -> << Head(set) >> \o SetReplace(Tail(set), e)

\* BTreeSet<Event>::insert on the ascending sequence of the set's elements:
\* an element that compares Equal to a stored one is not inserted, and the
\* stored one is kept.
RECURSIVE SetInsert(_, _)
SetInsert(set, e) ==
    IF set = << >> THEN << e >>
    ELSE CASE Cmp(e, Head(set)) = Less -> << e >> \o set
           [] Cmp(e, Head(set)) = Equal -> set
           [] Cmp(e, Head(set)) = Greater -> << Head(set) >> \o SetInsert(Tail(set), e)

\* ------------------------------------------------------------------- store

Actor(identity, tooltip) == [identity |-> identity, tooltip |-> tooltip]

\* BTreeMap::insert: the value stored under the key is replaced.
MapInsert(map, key, value) ==
    [k \in DOMAIN map \cup { key } |-> IF k = key THEN value ELSE map[k]]

RECURSIVE TotalEvents(_, _)
TotalEvents(evs, keys) ==
    IF keys = {} THEN 0
    ELSE LET k == CHOOSE x \in keys : TRUE
         IN  Len(evs[k]) + TotalEvents(evs, keys \ { k })

\* ---------------------------------------------------------------- renderer

\* RenderOpts::default
us_per_line == 1000000
sublines == 10
us_per_pixel == 10000
pixels_per_actor == 20
actor_name_padding == 5

Headings == { << "h", "\"" >>, << "-", "-", ">" >> }

DefaultOpts(heading) ==
    [us_per_line |-> us_per_line, sublines |-> sublines, us_per_pixel |-> us_per_pixel,
     pixels_per_actor |-> pixels_per_actor, actor_name_padding |-> actor_name_padding,
     heading |-> heading]

\* The i64 remainder: it truncates toward zero and takes the sign of the dividend.
Rem(a, b) == IF a >= 0 THEN a % b ELSE -((-a) % b)

\* Renderer::us_to_pixel. Every time and duration of the model is a multiple
\* of us_per_pixel, where the f64 quotient is the exact integer.
us_to_pixel(o, us) == IF us >= 0 THEN us \div o.us_per_pixel ELSE -((-us) \div o.us_per_pixel)

\* EventStore::all_events: the sets of the actors in key order, flattened.
RECURSIVE Flatten(_, _)
Flatten(evs, keys) ==
    IF keys = << >> THEN << >> ELSE evs[Head(keys)] \o Flatten(evs, Tail(keys))

all_events(evs) == Flatten(evs, SortedKeys(DOMAIN evs))

\* Iterator::min_by_key(start_time): the first of the least elements.
RECURSIVE MinStart(_)
MinStart(seq) ==
    IF Len(seq) = 1 THEN Head(seq)
    ELSE LET rest == MinStart(Tail(seq))
         IN  IF start_time(Head(seq)) <= start_time(rest) THEN Head(seq) ELSE rest

first_event_time(evs) ==
    IF all_events(evs) = << >> THEN 0
    ELSE LET e == MinStart(all_events(evs))
         IN  IF start_time(e) > 0 THEN 0 ELSE start_time(e)

\* filter_map(end_time).max().unwrap_or(0)
RECURSIVE MaxEnd(_, _)
MaxEnd(seq, acc) ==
    IF seq = << >> THEN acc
    ELSE LET end == end_time(Head(seq))
         IN  MaxEnd(Tail(seq),
                    IF end = None THEN acc
                    ELSE IF acc = None \/ end[1] >= acc[1] THEN end ELSE acc)

last_event_time(evs) ==
    LET m == MaxEnd(all_events(evs), None) IN IF m = None THEN 0 ELSE m[1]

\* The actors that have an event, each with its first event, in key order.
RECURSIVE WithFirstEvent(_, _)
WithFirstEvent(evs, keys) ==
    IF keys = << >> THEN << >>
    ELSE (IF evs[Head(keys)] = << >> THEN << >>
          ELSE << << Head(keys), Head(evs[Head(keys)]) >> >>)
         \o WithFirstEvent(evs, Tail(keys))

\* An insertion that puts an element before the elements of its own key: the
\* sort it makes is not stable.
RECURSIVE UnstableInsert(_, _)
UnstableInsert(sorted, x) ==
    IF sorted = << >> THEN << x >>
    ELSE IF start_time(x[2]) <= start_time(Head(sorted)[2]) THEN << x >> \o sorted
    ELSE << Head(sorted) >> \o UnstableInsert(Tail(sorted), x)

\* slice::sort_by_key(start_time of the first event): a stable sort.
RECURSIVE StableInsert(_, _)
StableInsert(sorted, x) ==
    IF sorted = << >> THEN << x >>
    ELSE IF start_time(x[2]) < start_time(Head(sorted)[2]) THEN << x >> \o sorted
    ELSE << Head(sorted) >> \o StableInsert(Tail(sorted), x)

RECURSIVE SortByFirstStart(_)
SortByFirstStart(seq) ==
    IF seq = << >> THEN << >>
    ELSE StableInsert(SortByFirstStart(SubSeq(seq, 1, Len(seq) - 1)), seq[Len(seq)])

LaneActors(evs) == SortByFirstStart(WithFirstEvent(evs, SortedKeys(DOMAIN evs)))

\* Renderer::render_lines: the grid bounds and the positions of the lines.
first_bar(o, first) == first - Rem(first, o.us_per_line)
last_bar(o, last) == last + Rem(last, o.us_per_line)

RECURSIVE GridFrom(_, _, _)
GridFrom(x, last, step) ==
    IF x > last THEN << >> ELSE << x >> \o GridFrom(x + step, last, step)

Abs(x) == IF x < 0 THEN -x ELSE x

render_lines(o, first, last) ==
    LET step == o.us_per_line \div o.sublines
        xs == GridFrom(first_bar(o, first), last_bar(o, last), step)
    IN  [first_bar |-> first_bar(o, first),
         last_bar |-> last_bar(o, last),
         lines |-> [i \in 1..Len(xs) |->
                      [x |-> us_to_pixel(o, xs[i]),
                       labelled |-> Abs(xs[i]) % o.us_per_line = 0]]]

\* Renderer::render_actor: the rectangles of the spans, then the label. An
\* Instant reaches unimplemented!(), which aborts the render.
HasInstant(set) == \E i \in 1..Len(set) : set[i].kind[1] = "Instant"

\* The class of the label and the sign of its padding, doubled to compare
\* against the halved sum without a fraction.
LabelLeft(o, start, box_width, first_event_pixel) ==
    2 * us_to_pixel(o, start) < first_event_pixel + box_width

render_actor(o, y, box_width, first_event_pixel, evs, actor) ==
    LET set == evs[actor]
        start == set[1].kind[2]
        left == LabelLeft(o, start, box_width, first_event_pixel)
    IN  [actor |-> actor,
         y |-> y,
         rects |-> [i \in 1..Len(set) |->
                      [x |-> us_to_pixel(o, set[i].kind[2]),
                       width |-> IF set[i].kind[3] # None
                                 THEN us_to_pixel(o, set[i].kind[3][1])
                                 ELSE (first_event_pixel + box_width)
                                        - us_to_pixel(o, set[i].kind[2])]],
         class |-> IF left THEN "left" ELSE "right",
         padding |-> IF left THEN o.actor_name_padding ELSE -o.actor_name_padding,
         text_x |-> us_to_pixel(o, start)
                      + (IF left THEN o.actor_name_padding ELSE -o.actor_name_padding)]

\* The scene Renderer::render draws for a store.
Scene(o, evs) ==
    LET first == first_event_time(evs)
        last == last_event_time(evs)
        lanes == LaneActors(evs)
        box_width == us_to_pixel(o, last - first)
    IN  [first_event_time |-> first,
         last_event_time |-> last,
         box_width |-> box_width,
         box_height |-> Len(lanes) * o.pixels_per_actor,
         grid |-> render_lines(o, first, last),
         lanes |-> [k \in 1..Len(lanes) |->
                      render_actor(o, (k - 1) * o.pixels_per_actor, box_width,
                                   us_to_pixel(o, first), evs, lanes[k][1])]]

\* Whether the render reaches an Instant in one of the actors it draws.
RenderPanics(evs) == \E a \in DOMAIN evs : HasInstant(evs[a])

\* ------------------------------------------------------------------- codec
\* The artifact is a sequence of tokens: a character (a one-character string)
\* or a piece of text no scan looks inside (a number, a member name, a tag).

\* serde_json: a string is written between quotes, a quote or a backslash in it
\* after a backslash.
RECURSIVE Escape(_)
Escape(s) ==
    IF s = << >> THEN << >>
    ELSE (IF Head(s) \in { "\"", "\\" } THEN << "\\", Head(s) >> ELSE << Head(s) >>)
         \o Escape(Tail(s))

SerStr(s) == << "\"" >> \o Escape(s) \o << "\"" >>
SerNum(n) == << ToString(n) >>
SerOptStr(t) == IF t = None THEN << "null" >> ELSE SerStr(t[1])
SerOptNum(t) == IF t = None THEN << "null" >> ELSE SerNum(t[1])
Member(name) == << "\"", name, "\"", ":" >>

\* The entries of a sequence, each written by W, with commas between them.
RECURSIVE Joined(_, _)
Joined(parts, i) ==
    IF i > Len(parts) THEN << >>
    ELSE (IF i > 1 THEN << "," >> ELSE << >>) \o parts[i] \o Joined(parts, i + 1)

SerFields(fields) ==
    LET keys == SortedKeys(DOMAIN fields)
    IN  << "{" >>
        \o Joined([i \in 1..Len(keys) |-> SerStr(keys[i]) \o << ":" >> \o SerStr(fields[keys[i]])], 1)
        \o << "}" >>

SerKind(kind) ==
    IF kind[1] = "Span"
    THEN << "{" >> \o Member("Span") \o << "[" >> \o SerNum(kind[2]) \o << "," >>
         \o SerOptNum(kind[3]) \o << "]", "}" >>
    ELSE << "{" >> \o Member("Instant") \o SerNum(kind[2]) \o << "}" >>

SerEvent(e) ==
    << "{" >> \o Member("fields") \o SerFields(e.fields) \o << "," >>
    \o Member("kind") \o SerKind(e.kind) \o << "," >>
    \o Member("value") \o SerStr(e.value) \o << "," >>
    \o Member("tooltip") \o SerOptStr(e.tooltip) \o << "}" >>

SerActor(a) ==
    << "{" >> \o Member("identity") \o SerStr(a.identity) \o << "," >>
    \o Member("tooltip") \o SerOptStr(a.tooltip) \o << "}" >>

SerEventSet(set) ==
    << "[" >> \o Joined([i \in 1..Len(set) |-> SerEvent(set[i])], 1) \o << "]" >>

SerStore(acts, evs) ==
    LET aks == SortedKeys(DOMAIN acts)
        eks == SortedKeys(DOMAIN evs)
    IN  << "{" >> \o Member("actors") \o << "{" >>
        \o Joined([i \in 1..Len(aks) |-> SerStr(aks[i]) \o << ":" >> \o SerActor(acts[aks[i]])], 1)
        \o << "}", "," >> \o Member("events") \o << "{" >>
        \o Joined([i \in 1..Len(eks) |-> SerStr(eks[i]) \o << ":" >> \o SerEventSet(evs[eks[i]])], 1)
        \o << "}", "}" >>

SerRenderer(o) ==
    << "{" >> \o Member("opts") \o << "{" >>
    \o Member("us_per_line") \o SerNum(o.us_per_line) \o << "," >>
    \o Member("sublines") \o SerNum(o.sublines) \o << "," >>
    \o Member("us_per_pixel") \o SerNum(o.us_per_pixel) \o << "," >>
    \o Member("pixels_per_actor") \o SerNum(o.pixels_per_actor) \o << "," >>
    \o Member("actor_name_padding") \o SerNum(o.actor_name_padding) \o << "," >>
    \o Member("heading") \o SerStr(o.heading) \o << "}", "}" >>

\* serde_json::to_string(&(self, &events))
to_string(o, acts, evs) ==
    << "[" >> \o SerRenderer(o) \o << "," >> \o SerStore(acts, evs) \o << "]" >>

\* svg::node::Comment: the content between "<!-- " and " -->", written as it is.
Comment(content) == << "<", "!", "-", "-", " " >> \o content \o << " ", "-", "-", ">" >>

\* The document svg::save writes: the comment is the first child of the root.
Document(o, acts, evs) ==
    << "<svg>" >> \o Comment(to_string(o, acts, evs)) \o << "<defs>", "</svg>" >>

\* serde_json::from_str for (Renderer, EventStore). A parse is the value read
\* and the tokens left, or a failure; the members of a struct are read one
\* after the other into a sequence, from which the struct is made.
Fail == [ok |-> FALSE, v |-> << >>, rest |-> << >>]
Done(v, rest) == [ok |-> TRUE, v |-> v, rest |-> rest]

StartsWith(toks, lits) == Len(toks) >= Len(lits) /\ SubSeq(toks, 1, Len(lits)) = lits
Drop(toks, n) == SubSeq(toks, n + 1, Len(toks))

\* Nothing read yet of the tokens.
Begin(toks) == Done(<< >>, toks)

\* The literal tokens lits must follow what p has read.
Lit(p, lits) ==
    IF p.ok /\ StartsWith(p.rest, lits) THEN Done(p.v, Drop(p.rest, Len(lits))) ELSE Fail

\* The value of the parse q, which read on from where p stopped, after p's.
Take(p, q) == IF p.ok /\ q.ok THEN Done(Append(p.v, q.v), q.rest) ELSE Fail

RECURSIVE StrBody(_, _)
StrBody(toks, acc) ==
    IF toks = << >> THEN Fail
    ELSE IF Head(toks) = "\"" THEN Done(acc, Tail(toks))
    ELSE IF Head(toks) = "\\"
         THEN IF Len(toks) >= 2 /\ toks[2] \in { "\"", "\\" }
              THEN StrBody(Drop(toks, 2), Append(acc, toks[2]))
              ELSE Fail
         ELSE StrBody(Tail(toks), Append(acc, Head(toks)))

ParseStr(toks) == IF StartsWith(toks, << "\"" >>) THEN StrBody(Tail(toks), << >>) ELSE Fail

\* The numbers an artifact of the model holds.
Numbers ==
    Times \cup Durations
        \cup { us_per_line, sublines, us_per_pixel, pixels_per_actor, actor_name_padding }

ParseNum(toks) ==
    IF toks # << >> /\ \E n \in Numbers : ToString(n) = Head(toks)
    THEN Done(CHOOSE n \in Numbers : ToString(n) = Head(toks), Tail(toks))
    ELSE Fail

Opt(p) == IF p.ok THEN Done(Some(p.v), p.rest) ELSE Fail

ParseOptStr(toks) ==
    IF StartsWith(toks, << "null" >>) THEN Done(None, Tail(toks)) ELSE Opt(ParseStr(toks))

ParseOptNum(toks) ==
    IF StartsWith(toks, << "null" >>) THEN Done(None, Tail(toks)) ELSE Opt(ParseNum(toks))

TakeStr(p) == Take(p, ParseStr(p.rest))
TakeNum(p) == Take(p, ParseNum(p.rest))
TakeOptStr(p) == Take(p, ParseOptStr(p.rest))
TakeOptNum(p) == Take(p, ParseOptNum(p.rest))

\* A BTreeMap is read by inserting the entries of the object.
RECURSIVE ParseFieldEntries(_, _)
FieldEntriesFrom(p, acc) ==
    IF ~p.ok THEN Fail
    ELSE IF StartsWith(p.rest, << "," >>)
         THEN ParseFieldEntries(Tail(p.rest), MapInsert(acc, p.v[1], p.v[2]))
         ELSE Done(MapInsert(acc, p.v[1], p.v[2]), p.rest)

ParseFieldEntries(toks, acc) ==
    FieldEntriesFrom(TakeStr(Lit(TakeStr(Begin(toks)), << ":" >>)), acc)

ParseFields(toks) ==
    IF StartsWith(toks, << "{", "}" >>) THEN Done(<< >>, Drop(toks, 2))
    ELSE IF StartsWith(toks, << "{" >>) THEN Lit(ParseFieldEntries(Tail(toks), << >>), << "}" >>)
    ELSE Fail

SpanFrom(p) == IF p.ok THEN Done(Span(p.v[1], p.v[2]), p.rest) ELSE Fail
InstantFrom(p) == IF p.ok THEN Done(Instant(p.v[1]), p.rest) ELSE Fail

ParseKind(toks) ==
    IF StartsWith(toks, << "{" >> \o Member("Span"))
    THEN SpanFrom(Lit(TakeOptNum(Lit(TakeNum(Lit(Begin(toks),
             << "{" >> \o Member("Span") \o << "[" >>)), << "," >>)), << "]", "}" >>))
    ELSE InstantFrom(Lit(TakeNum(Lit(Begin(toks), << "{" >> \o Member("Instant"))), << "}" >>))

TakeFields(p) == Take(p, ParseFields(p.rest))
TakeKind(p) == Take(p, ParseKind(p.rest))

EventFrom(p) ==
    IF p.ok
    THEN Done([fields |-> p.v[1], kind |-> p.v[2], value |-> p.v[3], tooltip |-> p.v[4]], p.rest)
    ELSE Fail

ParseEvent(toks) ==
    EventFrom(Lit(TakeOptStr(Lit(TakeStr(Lit(TakeKind(Lit(TakeFields(Lit(Begin(toks),
        << "{" >> \o Member("fields"))),
        << "," >> \o Member("kind"))),
        << "," >> \o Member("value"))),
        << "," >> \o Member("tooltip"))),
        << "}" >>))

\* A BTreeSet<Event> is read by inserting the elements of the array.
RECURSIVE ParseEventElems(_, _)
EventElemsFrom(e, acc) ==
    IF ~e.ok THEN Fail
    ELSE IF StartsWith(e.rest, << "," >>)
         THEN ParseEventElems(Tail(e.rest), SetInsert(acc, e.v))
         ELSE Done(SetInsert(acc, e.v), e.rest)

ParseEventElems(toks, acc) == EventElemsFrom(ParseEvent(toks), acc)

ParseEventSet(toks) ==
    IF StartsWith(toks, << "[", "]" >>) THEN Done(<< >>, Drop(toks, 2))
    ELSE IF StartsWith(toks, << "[" >>) THEN Lit(ParseEventElems(Tail(toks), << >>), << "]" >>)
    ELSE Fail

ActorFrom(p) == IF p.ok THEN Done(Actor(p.v[1], p.v[2]), p.rest) ELSE Fail

ParseActor(toks) ==
    ActorFrom(Lit(TakeOptStr(Lit(TakeStr(Lit(Begin(toks),
        << "{" >> \o Member("identity"))),
        << "," >> \o Member("tooltip"))),
        << "}" >>))

TakeActor(p) == Take(p, ParseActor(p.rest))
TakeEventSet(p) == Take(p, ParseEventSet(p.rest))

RECURSIVE ParseActorEntries(_, _)
ActorEntriesFrom(p, acc) ==
    IF ~p.ok THEN Fail
    ELSE IF StartsWith(p.rest, << "," >>)
         THEN ParseActorEntries(Tail(p.rest), MapInsert(acc, p.v[1], p.v[2]))
         ELSE Done(MapInsert(acc, p.v[1], p.v[2]), p.rest)

ParseActorEntries(toks, acc) ==
    ActorEntriesFrom(TakeActor(Lit(TakeStr(Begin(toks)), << ":" >>)), acc)

ParseActors(toks) ==
    IF StartsWith(toks, << "{", "}" >>) THEN Done(<< >>, Drop(toks, 2))
    ELSE IF StartsWith(toks, << "{" >>) THEN Lit(ParseActorEntries(Tail(toks), << >>), << "}" >>)
    ELSE Fail

RECURSIVE ParseEventsEntries(_, _)
EventsEntriesFrom(p, acc) ==
    IF ~p.ok THEN Fail
    ELSE IF StartsWith(p.rest, << "," >>)
         THEN ParseEventsEntries(Tail(p.rest), MapInsert(acc, p.v[1], p.v[2]))
         ELSE Done(MapInsert(acc, p.v[1], p.v[2]), p.rest)

ParseEventsEntries(toks, acc) ==
    EventsEntriesFrom(TakeEventSet(Lit(TakeStr(Begin(toks)), << ":" >>)), acc)

ParseEvents(toks) ==
    IF StartsWith(toks, << "{", "}" >>) THEN Done(<< >>, Drop(toks, 2))
    ELSE IF StartsWith(toks, << "{" >>) THEN Lit(ParseEventsEntries(Tail(toks), << >>), << "}" >>)
    ELSE Fail

TakeActors(p) == Take(p, ParseActors(p.rest))
TakeEvents(p) == Take(p, ParseEvents(p.rest))

StoreFrom(p) == IF p.ok THEN Done([actors |-> p.v[1], events |-> p.v[2]], p.rest) ELSE Fail

ParseStore(toks) ==
    StoreFrom(Lit(TakeEvents(Lit(TakeActors(Lit(Begin(toks),
        << "{" >> \o Member("actors"))),
        << "," >> \o Member("events"))),
        << "}" >>))

RendererFrom(p) ==
    IF p.ok
    THEN Done([us_per_line |-> p.v[1], sublines |-> p.v[2], us_per_pixel |-> p.v[3],
               pixels_per_actor |-> p.v[4], actor_name_padding |-> p.v[5],
               heading |-> p.v[6]], p.rest)
    ELSE Fail

ParseRenderer(toks) ==
    RendererFrom(Lit(TakeStr(Lit(TakeNum(Lit(TakeNum(Lit(TakeNum(Lit(TakeNum(Lit(TakeNum(Lit(
        Begin(toks),
        << "{" >> \o Member("opts") \o << "{" >> \o Member("us_per_line"))),
        << "," >> \o Member("sublines"))),
        << "," >> \o Member("us_per_pixel"))),
        << "," >> \o Member("pixels_per_actor"))),
        << "," >> \o Member("actor_name_padding"))),
        << "," >> \o Member("heading"))),
        << "}", "}" >>))

TakeRenderer(p) == Take(p, ParseRenderer(p.rest))
TakeStore(p) == Take(p, ParseStore(p.rest))

\* The whole text must be the value: nothing may follow it.
RootFrom(p) ==
    IF p.ok /\ p.rest = << >> THEN Done([opts |-> p.v[1], store |-> p.v[2]], << >>) ELSE Fail

from_str(toks) ==
    RootFrom(Lit(TakeStore(Lit(TakeRenderer(Lit(Begin(toks), << "[" >>)), << "," >>)), << "]" >>))

\* svg::Parser: the first comment of the document, from "<!--" to the first
\* "-->" after it; NoComment when the document has none.
NoComment == << >>

\* The index of the last character of the first "-->" at or after j, or 0.
CommentEnd(doc, j) ==
    LET ends == { k \in j..(Len(doc) - 2) :
                    doc[k] = "-" /\ doc[k + 1] = "-" /\ doc[k + 2] = ">" }
    IN  IF ends = {} THEN 0 ELSE (CHOOSE k \in ends : \A o \in ends : k <= o) + 2

FirstComment(doc) ==
    LET starts == { i \in 1..(Len(doc) - 3) :
                      doc[i] = "<" /\ doc[i + 1] = "!" /\ doc[i + 2] = "-" /\ doc[i + 3] = "-" }
        i == CHOOSE k \in starts : \A o \in starts : k <= o
    IN  IF starts = {} \/ CommentEnd(doc, i + 4) = 0 THEN NoComment
        ELSE SubSeq(doc, i, CommentEnd(doc, i + 4))

\* load: the comment without its first 5 and last 4 characters, deserialized.
load(doc) ==
    LET c == FirstComment(doc)
    IN  IF c = NoComment THEN [result |-> "EmbeddedStateNotFound"]
        ELSE LET parsed == from_str(SubSeq(c, 6, Len(c) - 4))
             IN  IF parsed.ok
                 THEN [result |-> "Ok", opts |-> parsed.v.opts, store |-> parsed.v.store]
                 ELSE [result |-> "MalformedEmbeddedState"]

VARIABLES
    actors,     \* EventStore.actors of the running process
    events,     \* EventStore.events of the running process
    opts,       \* Renderer.opts of the running process
    artifact,   \* the file the last render wrote, until a process has loaded it
    rendered,   \* what the render that wrote the artifact was given
    pc,         \* "live": a process holds the store; "exited": none does
    last        \* the last call: its operation, arguments, result, and the store before it

vars == << actors, events, opts, artifact, rendered, pc, last >>

NoArg == "none"
EmptyStore == [actors |-> << >>, events |-> << >>]

Call(op, actor, arg, result, yielded) ==
    [op |-> op, actor |-> actor, arg |-> arg, result |-> result, yielded |-> yielded,
     before |-> [actors |-> actors, events |-> events]]

NoArtifact == [written |-> FALSE, doc |-> << >>, scene |-> << >>]

\* RendererBuilder::default().heading(h).build() and EventStore::default()
Init ==
    /\ actors = << >>
    /\ events = << >>
    /\ opts \in { DefaultOpts(h) : h \in Headings }
    /\ artifact = NoArtifact
    /\ rendered = NoArg
    /\ pc = "live"
    /\ last = [op |-> "default", actor |-> NoArg, arg |-> NoArg, result |-> "Ok",
               yielded |-> << >>, before |-> EmptyStore]

\* A register_actor that gives the new actor no event set.
register_actor_without_events(actor) ==
    /\ actors' = MapInsert(actors, actor.identity, actor)
    /\ UNCHANGED events
    /\ IF actor.identity \in DOMAIN actors
       THEN last' = Call("register_actor", actor.identity, actor, "DuplicateActor", << >>)
       ELSE last' = Call("register_actor", actor.identity, actor, "Ok", << >>)

\* EventStore::register_actor
register_actor(actor) ==
    /\ actors' = MapInsert(actors, actor.identity, actor)
    /\ IF actor.identity \in DOMAIN actors
       THEN /\ UNCHANGED events
            /\ last' = Call("register_actor", actor.identity, actor, "DuplicateActor", << >>)
       ELSE /\ events' = MapInsert(events, actor.identity, << >>)
            /\ last' = Call("register_actor", actor.identity, actor, "Ok", << >>)

\* An add_event that makes the event set of an actor it does not know.
add_event_or_default(actor, event) ==
    /\ events' = IF actor \in DOMAIN events
                 THEN [events EXCEPT ![actor] = SetInsert(@, event)]
                 ELSE MapInsert(events, actor, << event >>)
    /\ UNCHANGED actors
    /\ last' = Call("add_event", actor, event, "Ok", << >>)

\* EventStore::add_event
add_event(actor, event) ==
    IF actor \notin DOMAIN events
    THEN /\ UNCHANGED << actors, events >>
         /\ last' = Call("add_event", actor, event, "UnknownActor", << >>)
    ELSE /\ events' = [events EXCEPT ![actor] = SetInsert(@, event)]
         /\ UNCHANGED actors
         /\ last' = Call("add_event", actor, event, "Ok", << >>)

\* EventStore::events_for
events_for(actor) ==
    /\ UNCHANGED << actors, events >>
    /\ IF actor \notin DOMAIN events
       THEN last' = Call("events_for", actor, NoArg, "UnknownActor", << >>)
       ELSE last' = Call("events_for", actor, NoArg, "Ok", events[actor])

\* Renderer::render: it takes the store, and the process ends with it. An
\* aborted render has not reached svg::save.
render ==
    /\ IF RenderPanics(events)
       THEN /\ UNCHANGED << artifact, rendered >>
            /\ last' = Call("render", NoArg, NoArg, "Panic", << >>)
       ELSE /\ artifact' = [written |-> TRUE, doc |-> Document(opts, actors, events),
                            scene |-> Scene(opts, events)]
            /\ rendered' = [opts |-> opts, actors |-> actors, events |-> events]
            /\ last' = Call("render", NoArg, NoArg, "Ok", << >>)
    /\ actors' = << >>
    /\ events' = << >>
    /\ pc' = "exited"
    /\ UNCHANGED opts

RegisterActor ==
    /\ pc = "live"
    /\ \E id \in ActorIds, t \in Tooltips : register_actor(Actor(id, t))
    /\ UNCHANGED << opts, artifact, rendered, pc >>

AddEvent ==
    /\ pc = "live"
    /\ TotalEvents(events, DOMAIN events) < MaxEvents
    /\ \E id \in ActorIds, e \in Events : add_event(id, e)
    /\ UNCHANGED << opts, artifact, rendered, pc >>

EventsFor ==
    /\ pc = "live"
    /\ \E id \in ActorIds : events_for(id)
    /\ UNCHANGED << opts, artifact, rendered, pc >>

Render ==
    /\ pc = "live"
    /\ render

\* A new process reads the artifact back: main's load(&cli.path).unwrap(). Each
\* artifact is read by the one process that continues from it, so the model
\* forgets the file once it is loaded; the next render writes it anew.
Load ==
    /\ pc = "exited"
    /\ artifact.written
    /\ LET r == load(artifact.doc)
       IN  IF r.result = "Ok"
           THEN /\ opts' = r.opts
                /\ actors' = r.store.actors
                /\ events' = r.store.events
                /\ pc' = "live"
                /\ artifact' = NoArtifact
                /\ rendered' = NoArg
                /\ last' = Call("load", NoArg, rendered, "Ok", << >>)
           ELSE /\ UNCHANGED << opts, actors, events, pc, artifact, rendered >>
                /\ last' = Call("load", NoArg, rendered, r.result, << >>)

Next == RegisterActor \/ AddEvent \/ EventsFor \/ Render \/ Load

Spec == Init /\ [][Next]_vars

\* ------------------------------------------------------------------ claims

Store == [actors |-> actors, events |-> events]

\* The pair an event is ordered and identified by.
Key(e) == << start_time(e), end_time(e) >>

\* C1: a register_actor call with an identity that is already registered fails
\* with the duplicate-actor error and leaves the actors mapping and the events
\* mapping as they were before the call.
C1_DuplicateLeavesStoreUnchanged ==
    (last.op = "register_actor" /\ last.actor \in DOMAIN last.before.actors)
        => (last.result = "DuplicateActor" /\ Store = last.before)

\* C2: in every state reached by register_actor and add_event calls, failing
\* ones included, the actors mapping and the events mapping have the same keys.
C2_KeySetsEqual == DOMAIN actors = DOMAIN events

C2_Witness ==
    /\ last.op = "add_event"
    /\ last.result = "UnknownActor"
    /\ DOMAIN actors # {}
    /\ DOMAIN actors # ActorIds

\* C3: add_event and events_for on an identity that was never registered fail
\* with the unknown-actor error, and the store after the call is the store
\* before it.
C3_UnknownActorGuard ==
    (last.op \in { "add_event", "events_for" } /\ last.actor \notin DOMAIN last.before.actors)
        => (last.result = "UnknownActor" /\ Store = last.before)

C3_Witness ==
    /\ last.op = "add_event"
    /\ last.actor \notin DOMAIN last.before.actors
    /\ last.result = "UnknownActor"
    /\ \E a \in DOMAIN events : events[a] # << >>

\* The strict order of the pairs (start_time, end_time), an absent end_time
\* being lower than any present one.
PairLess(a, b) ==
    \/ start_time(a) < start_time(b)
    \/ /\ start_time(a) = start_time(b)
       /\ \/ end_time(a) = None /\ end_time(b) # None
          \/ end_time(a) # None /\ end_time(b) # None /\ end_time(a)[1] < end_time(b)[1]

\* C4: events_for on a registered actor yields the actor's stored events in
\* strictly ascending order of (start_time, end_time), an open-ended span
\* coming before every event of the same start that has an end.
C4_EventsForAscending ==
    (last.op = "events_for" /\ last.actor \in DOMAIN last.before.events)
        => /\ last.result = "Ok"
           /\ last.yielded = events[last.actor]
           /\ \A i, j \in 1..Len(last.yielded) :
                i < j => PairLess(last.yielded[i], last.yielded[j])

C4_Witness ==
    /\ last.op = "events_for"
    /\ last.result = "Ok"
    /\ Len(last.yielded) = 2
    /\ last.yielded[1].kind[1] = "Span"
    /\ last.yielded[1].kind[3] = None
    /\ start_time(last.yielded[2]) = start_time(last.yielded[1])
    /\ end_time(last.yielded[2]) # None

\* Whether the set holds an event of the key of e.
Collides(set, e) == \E i \in 1..Len(set) : Key(set[i]) = Key(e)

\* C5: add_event for a registered actor with an event whose
\* (start_time, end_time) equals that of a stored event of the actor returns
\* success and leaves the actor's event set, and the rest of the store, as it
\* was: the stored event keeps its content and no event is added.
C5_CollisionDropsNewEvent ==
    (/\ last.op = "add_event"
     /\ last.actor \in DOMAIN last.before.events
     /\ Collides(last.before.events[last.actor], last.arg))
        => (last.result = "Ok" /\ Store = last.before)

C5_Witness ==
    /\ last.op = "add_event"
    /\ last.result = "Ok"
    /\ last.actor \in DOMAIN last.before.events
    /\ last.arg.kind[1] = "Instant"
    /\ \E i \in 1..Len(last.before.events[last.actor]) :
         LET stored == last.before.events[last.actor][i]
         IN  /\ Key(stored) = Key(last.arg)
             /\ stored.kind = Span(last.arg.kind[2], Some(0))
             /\ stored.fields # last.arg.fields
             /\ stored.value # last.arg.value
             /\ stored.tooltip # last.arg.tooltip
             /\ events[last.actor][i] = stored

\* C6: loading the artifact a render wrote yields the options and the store
\* the render was given, whatever the heading and the other strings are.
C6_RoundTrip ==
    last.op = "load"
        => /\ last.result = "Ok"
           /\ opts = last.arg.opts
           /\ actors = last.arg.actors
           /\ events = last.arg.events

\* C7: a render of a reachable store completes or returns the unknown-actor
\* error; it does not abort for another reason.
C7_RenderFailsOnlyUnknownActor ==
    last.op = "render" => last.result \in { "Ok", "UnknownActor" }

\* C8: the grid covers the event range: first_bar is a multiple of us_per_line
\* at or below first_event_time, last_bar one at or above last_event_time.
C8_GridCoversRange ==
    artifact.written
        => /\ artifact.scene.grid.first_bar % rendered.opts.us_per_line = 0
           /\ artifact.scene.grid.first_bar <= artifact.scene.first_event_time
           /\ artifact.scene.grid.last_bar % rendered.opts.us_per_line = 0
           /\ artifact.scene.grid.last_bar >= artifact.scene.last_event_time

\* C9: the label of an actor has class "left" and positive padding exactly
\* when the pixel of the start of its first span is left of the midpoint of
\* the box, halfway between pixel(first_event_time) and that plus box_width;
\* otherwise class "right" and negative padding.
C9_LabelSideByBoxMidpoint ==
    artifact.written
        => \A k \in 1..Len(artifact.scene.lanes) :
             LET lane == artifact.scene.lanes[k]
                 o == rendered.opts
                 start == start_time(rendered.events[lane.actor][1])
                 leftOfMid ==
                     2 * us_to_pixel(o, start)
                         < 2 * us_to_pixel(o, artifact.scene.first_event_time)
                             + artifact.scene.box_width
             IN  IF leftOfMid
                 THEN lane.class = "left" /\ lane.padding > 0
                 ELSE lane.class = "right" /\ lane.padding < 0

\* The actors of a store that have at least one event.
ActorsWithEvents(evs) == { a \in DOMAIN evs : evs[a] # << >> }

\* C10: the actors with at least one event, and no others, get a lane; lane k
\* (from 0) is at y = k * pixels_per_actor; the lanes are in ascending order of
\* the start of each actor's first event, equal starts in ascending identity
\* order; box_height is pixels_per_actor times the number of lanes.
C10_LaneAssignment ==
    artifact.written
        => LET lanes == artifact.scene.lanes
               evs == rendered.events
               ppa == rendered.opts.pixels_per_actor
               first(k) == start_time(evs[lanes[k].actor][1])
           IN  /\ { lanes[k].actor : k \in 1..Len(lanes) } = ActorsWithEvents(evs)
               /\ Len(lanes) = Cardinality(ActorsWithEvents(evs))
               /\ \A k \in 1..Len(lanes) : lanes[k].y = (k - 1) * ppa
               /\ \A k, l \in 1..Len(lanes) :
                    k < l => \/ first(k) < first(l)
                             \/ /\ first(k) = first(l)
                                /\ StrCmp(lanes[k].actor, lanes[l].actor) = Less
               /\ artifact.scene.box_height = ppa * Cardinality(ActorsWithEvents(evs))

C10_Witness ==
    /\ artifact.written
    /\ Len(artifact.scene.lanes) = 2
    /\ artifact.scene.lanes[1].actor = << "B" >>
    /\ artifact.scene.lanes[1].y = 0
    /\ artifact.scene.lanes[2].actor = << "A" >>
    /\ artifact.scene.lanes[2].y = pixels_per_actor
    /\ start_time(rendered.events[<< "B" >>][1]) < start_time(rendered.events[<< "A" >>][1])

\* C11: the rectangle of every open-ended event Span(start, None) starts at
\* pixel(start) and has the width (first_event_pixel + box_width) - pixel(start),
\* which reaches the right edge of the box and is never negative, whatever
\* the other events and actors of the store are.
C11_OpenSpanReachesRightEdge ==
    artifact.written
        => \A k \in 1..Len(artifact.scene.lanes) :
             LET lane == artifact.scene.lanes[k]
                 o == rendered.opts
                 set == rendered.events[lane.actor]
                 first_event_pixel == us_to_pixel(o, artifact.scene.first_event_time)
             IN  \A i \in 1..Len(set) :
                   set[i].kind = Span(start_time(set[i]), None)
                       => /\ lane.rects[i].x = us_to_pixel(o, start_time(set[i]))
                          /\ lane.rects[i].width
                                = (first_event_pixel + artifact.scene.box_width)
                                    - us_to_pixel(o, start_time(set[i]))
                          /\ lane.rects[i].width >= 0

====
